---- MODULE Spec2Model ----
(***************************************************************************)
(* A model of notion_finance.py: the Streamlit script that fetches the     *)
(* transaction records of a Notion database, normalises them into a        *)
(* ledger (a DataFrame sorted by date) and derives balances, cumulative    *)
(* series, category pies and a paginated list from it.                     *)
(*                                                                         *)
(* A DataFrame is [columns |-> set of column names, rows |-> sequence of   *)
(* rows], a row being a function from column names to values.  Amounts are *)
(* exact integers (the code uses floats; rounding is not modelled).  A     *)
(* datetime is <<year, month, day, hour, minute>>.  A string that the code *)
(* slices is a sequence of one-character strings.                          *)
(***************************************************************************)
EXTENDS Integers, Sequences, FiniteSets, TLC

VARIABLES
    db,                 \* the Notion database: sequence of pages (raw records)
    now,                \* datetime.datetime.now()
    pc,                 \* position of the script run inside deploy_streamlit
    df,                 \* deploy_streamlit's df: the ledger of this run
    fetched,            \* what get_transactions returned, before any derivation
    queries,            \* every query get_transactions issued, with its response
    response_results,   \* get_transactions's response_results, as the rows are built
    money,              \* get_current_money's result
    time_range,         \* dashboard's time_range selectbox
    fig_total,          \* plot_total_money's trace
    fig_ahorros,        \* plot_ahorros's trace
    expenses_or_income, \* dashboard's type selectbox
    df_filtered,        \* dashboard's df_filtered
    fig_pie,            \* plot_category_pie's result
    fig_comer,          \* plot_pie_expense_comer's result
    listing,            \* what list_transactions rendered
    deleted             \* page ids passed to delete_transaction so far

vars == <<db, now, pc, df, fetched, queries, response_results, money, time_range, fig_total,
          fig_ahorros, expenses_or_income, df_filtered, fig_pie, fig_comer,
          listing, deleted>>

-----------------------------------------------------------------------------
(* Bounds of the model. *)

\* most pages in the database of the application specification
MaxRecords == 2
\* most pages in the database of the balance and category specifications
MaxLedger == 2
\* most rows of the ledgers given to list_transactions
MaxRows == 41
\* most consecutive rows sharing one calendar day in those ledgers
MaxRun == 3

(* Program constants. *)

COMER == {"uber eats", "comida", "monchis", "desayuno", "restaurante"}
PageSize == 100
items_per_page == 20
default_date == <<2025, 1, 1, 0, 0>>

\* an absent select / created_time of a Notion page
NoSelect == "<none>"
NoDate == <<>>
\* a variable that holds nothing yet in this run
Unset == [unset |-> TRUE]
\* a selectbox that was not reached yet in this run
NoChoice == ""

-----------------------------------------------------------------------------
(* Sequences. *)

RECURSIVE SumSeq(_)
SumSeq(s) == IF s = <<>> THEN 0 ELSE Head(s) + SumSeq(Tail(s))

RECURSIVE Flatten(_)
Flatten(ss) == IF ss = <<>> THEN <<>> ELSE Head(ss) \o Flatten(Tail(ss))

Reverse(s) == [i \in 1..Len(s) |-> s[Len(s) + 1 - i]]

RECURSIVE SelectIdx(_, _, _)
\* the indices i of 1..n, ascending, with keep[i]
SelectIdx(keep, i, n) ==
    IF i > n THEN <<>>
    ELSE (IF keep[i] THEN <<i>> ELSE <<>>) \o SelectIdx(keep, i + 1, n)

Abs(x) == IF x < 0 THEN -x ELSE x

Min(a, b) == IF a <= b THEN a ELSE b

-----------------------------------------------------------------------------
(* Datetimes. *)

\* a < b for datetimes <<Y, M, D, h, m>>
RECURSIVE LexLess(_, _)
LexLess(a, b) ==
    IF a = <<>> \/ b = <<>> THEN FALSE
    ELSE IF Head(a) # Head(b) THEN Head(a) < Head(b)
    ELSE LexLess(Tail(a), Tail(b))

DateGeq(a, b) == ~LexLess(a, b)

IsLeap(y) == (y % 4 = 0 /\ y % 100 # 0) \/ y % 400 = 0

DaysInMonth(y, m) ==
    IF m = 2 THEN (IF IsLeap(y) THEN 29 ELSE 28)
    ELSE IF m \in {4, 6, 9, 11} THEN 30 ELSE 31

\* d - pd.DateOffset(months=1): the same day of the previous month, clamped
MinusOneMonth(d) ==
    LET y == IF d[2] = 1 THEN d[1] - 1 ELSE d[1]
        m == IF d[2] = 1 THEN 12 ELSE d[2] - 1
    IN  <<y, m, Min(d[3], DaysInMonth(y, m)), d[4], d[5]>>

\* d - pd.DateOffset(weeks=1): seven days earlier
MinusOneWeek(d) ==
    IF d[3] > 7 THEN <<d[1], d[2], d[3] - 7, d[4], d[5]>>
    ELSE LET y == IF d[2] = 1 THEN d[1] - 1 ELSE d[1]
             m == IF d[2] = 1 THEN 12 ELSE d[2] - 1
         IN  <<y, m, DaysInMonth(y, m) + d[3] - 7, d[4], d[5]>>

Digit(n) == <<"0", "1", "2", "3", "4", "5", "6", "7", "8", "9">>[n + 1]

TwoDigits(n) == <<Digit((n \div 10) % 10), Digit(n % 10)>>

FourDigits(n) == TwoDigits(n \div 100) \o TwoDigits(n % 100)

\* d.strftime("%d-%m-%Y %H:%M")
Strftime(d) ==
    TwoDigits(d[3]) \o <<"-">> \o TwoDigits(d[2]) \o <<"-">> \o FourDigits(d[1])
        \o <<" ">> \o TwoDigits(d[4]) \o <<":">> \o TwoDigits(d[5])

\* s[:-6]
DropLast6(s) == SubSeq(s, 1, Len(s) - 6)

-----------------------------------------------------------------------------
(* DataFrames. *)

NRows(frame) == Len(frame.rows)

\* pd.DataFrame(rows): the columns are the keys of the rows; none without rows
DataFrame(rows) ==
    [columns |-> IF rows = <<>> THEN {} ELSE DOMAIN rows[1], rows |-> rows]

\* frame[c] = values, values[i] being the value of row i
WithColumn(frame, c, values) ==
    [columns |-> frame.columns \cup {c},
     rows |-> [i \in 1..NRows(frame) |->
                  (c :> values[i]) @@ frame.rows[i]]]

\* frame[c]
Column(frame, c) == [i \in 1..NRows(frame) |-> frame.rows[i][c]]

\* frame[mask]
Where(frame, mask) ==
    [columns |-> frame.columns,
     rows |-> LET idx == SelectIdx(mask, 1, NRows(frame))
              IN  [k \in 1..Len(idx) |-> frame.rows[idx[k]]]]

\* frame.sort_values("date"): ascending, rows of equal date keep their order
\* the row put behind the rows that are not dated later
InsertByDate(sorted, row) ==
    LET before == Cardinality({j \in 1..Len(sorted) :
                      ~LexLess(row["date"], sorted[j]["date"])})
    IN  SubSeq(sorted, 1, before) \o <<row>>
            \o SubSeq(sorted, before + 1, Len(sorted))

RECURSIVE InsertAll(_, _)
\* the rows put into sorted one after the other, by halves
InsertAll(sorted, rows) ==
    IF sorted = <<>> /\ Len(rows) <= 1 THEN rows
    ELSE IF rows = <<>> THEN sorted
    ELSE IF Len(rows) = 1 THEN InsertByDate(sorted, rows[1])
    ELSE LET half == Len(rows) \div 2
         IN  InsertAll(InsertAll(sorted, SubSeq(rows, 1, half)),
                       SubSeq(rows, half + 1, Len(rows)))

SortRows(rows) == InsertAll(<<>>, rows)

SortByDate(frame) == [columns |-> frame.columns, rows |-> SortRows(frame.rows)]

-----------------------------------------------------------------------------
(* The record source: the Notion database behind notion.databases.query    *)
(* and notion.pages.update.                                                *)

NoCursor == 0

\* a Notion page with the given property values; the title is two text runs
Page(id, f) ==
    [id |-> id, archived |-> FALSE,
     Description |-> << <<"p">>, <<"a", "n">> >>,
     Category |-> f.Category, Amount |-> f.Amount, Account |-> f.Account,
     Type |-> f.Type, created_time |-> f.created_time]

\* the position in pages, from i on, of the page with this id,
\* Len(pages) + 1 if none
IndexOfId(pages, id, i) ==
    LET at == {j \in i..Len(pages) : pages[j].id = id}
    IN  IF at = {} THEN Len(pages) + 1
        ELSE CHOOSE j \in at : \A k \in at : j <= k

\* notion.databases.query(database_id, page_size, start_cursor): at most
\* page_size of the pages that are not archived, from the cursor on
Query(database, page_size, start_cursor) ==
    LET live == SelectSeq(database, LAMBDA p : ~p.archived)
        from == IF start_cursor = NoCursor THEN 1
                ELSE IndexOfId(live, start_cursor, 1)
        upto == Min(Len(live), from + page_size - 1)
    IN  [results |-> SubSeq(live, from, upto),
         has_more |-> upto < Len(live),
         next_cursor |-> IF upto < Len(live) THEN live[upto + 1].id
                         ELSE NoCursor]

\* notion.pages.update(page_id, archived=True)
Archive(database, page_id) ==
    [i \in 1..Len(database) |->
        IF database[i].id = page_id
        THEN [database[i] EXCEPT !.archived = TRUE]
        ELSE database[i]]

-----------------------------------------------------------------------------
(* get_transactions *)

\* a query as issued, with what it returned
Issued(start_cursor, response) ==
    [start_cursor |-> start_cursor, results |-> response.results,
     next_cursor |-> response.next_cursor, has_more |-> response.has_more]

RECURSIVE QueryLoop(_, _, _, _, _)
\* the while loop: one more query as long as the last response has more
QueryLoop(database, response, cursor, results, issued) ==
    IF response.has_more
    THEN LET next == Query(database, PageSize, cursor)
         IN  QueryLoop(database, next, next.next_cursor,
                       results \o next.results,
                       Append(issued, Issued(cursor, next)))
    ELSE [response_results |-> results, queries |-> issued]

\* a get_transactions that queries once
QueryOnce(database) ==
    LET response == Query(database, PageSize, NoCursor)
    IN  [response_results |-> response.results,
         queries |-> <<Issued(NoCursor, response)>>]

\* the first query and the loop: every result, and every query issued
QueryAll(database) ==
    LET response == Query(database, PageSize, NoCursor)
    IN  QueryLoop(database, response, response.next_cursor, response.results,
                  <<Issued(NoCursor, response)>>)

\* the row built from one page of the results
RowOf(page) ==
    [page_id |-> page.id,
     description |-> Flatten(page.Description),
     category |-> IF page.Category # NoSelect THEN page.Category ELSE "None",
     amount |-> page.Amount,
     account |-> IF page.Account # NoSelect THEN page.Account ELSE "None",
     type |-> IF page.Type # NoSelect THEN page.Type ELSE "None",
     date |-> IF page.created_time # NoDate THEN page.created_time
              ELSE default_date]

\* a sign flip that makes every expense negative
FlipExpensesToNegative(frame) ==
    [columns |-> frame.columns,
     rows |-> [i \in 1..Len(frame.rows) |->
                  IF frame.rows[i]["type"] = "Expense"
                  THEN [frame.rows[i] EXCEPT !["amount"] = IF @ < 0 THEN @ ELSE -@]
                  ELSE frame.rows[i]]]

\* transactions.loc[transactions["type"] == "Expense", "amount"] *= -1
FlipExpenses(frame) ==
    WithColumn(frame, "amount",
        [i \in 1..NRows(frame) |->
            IF frame.rows[i]["type"] = "Expense"
            THEN frame.rows[i]["amount"] * (-1)
            ELSE frame.rows[i]["amount"]])

\* the frame built from the results, before its "date" column is first read
RawFrame(results) == DataFrame([i \in 1..Len(results) |-> RowOf(results[i])])

\* transactions["date"] raises KeyError on a frame without that column
RaisesKeyError(frame) == "date" \notin frame.columns

\* the returned ledger: sorted by date, expenses negated
Normalize(frame) == FlipExpenses(SortByDate(frame))

LedgerColumns ==
    {"page_id", "description", "category", "amount", "account", "type", "date"}

\* a ledger without transactions
EmptyLedger == [columns |-> LedgerColumns, rows |-> <<>>]

-----------------------------------------------------------------------------
(* get_current_money *)

\* a mask that zeroes nothing
MaskedAmountKeepsAll(frame, c, zeroed) ==
    [columns |-> frame.columns \cup {c},
     rows |-> [i \in 1..Len(frame.rows) |->
                  (c :> frame.rows[i]["amount"]) @@ frame.rows[i]]]

\* frame[c] = frame["amount"], then frame.loc[zeroed, c] = 0
MaskedAmount(frame, c, zeroed) ==
    WithColumn(frame, c,
        [i \in 1..NRows(frame) |->
            IF zeroed[i] THEN 0 ELSE frame.rows[i]["amount"]])

\* frame[c].sum()
SumColumn(frame, c) == SumSeq(Column(frame, c))

\* the frame as get_current_money leaves it: four helper columns added
MoneyColumns(frame) ==
    LET f1 == MaskedAmount(frame, "amount_no_ahorros",
                  [i \in 1..NRows(frame) |-> frame.rows[i]["type"] = "Ahorros"])
        f2 == MaskedAmount(f1, "tarjeta",
                  [i \in 1..NRows(frame) |-> frame.rows[i]["account"] # "Tarjeta"])
        f3 == MaskedAmount(f2, "efectivo",
                  [i \in 1..NRows(frame) |-> frame.rows[i]["account"] # "Efectivo"])
    IN  MaskedAmount(f3, "ahorros",
                  [i \in 1..NRows(frame) |-> frame.rows[i]["account"] # "Ahorros"])

\* a get_current_money that leaves the savings in the card balance
CurrentTarjetaKeepsSavings(tarjeta_sum, ahorros_sum) == tarjeta_sum

\* current_tarjeta -= current_ahorros
CurrentTarjeta(tarjeta_sum, ahorros_sum) == tarjeta_sum - ahorros_sum

\* the returned tuple, from the frame with its helper columns
CurrentMoney(frame) ==
    [current_money |-> SumColumn(frame, "amount_no_ahorros"),
     current_tarjeta |-> CurrentTarjeta(SumColumn(frame, "tarjeta"),
                                        SumColumn(frame, "ahorros")),
     current_efectivo |-> SumColumn(frame, "efectivo"),
     current_ahorros |-> SumColumn(frame, "ahorros")]

-----------------------------------------------------------------------------
(* plot_total_money, plot_ahorros *)

TimeRanges == {"Todo", "Último mes", "Última semana"}

RECURSIVE CumSum(_)
\* values.cumsum()
CumSum(values) ==
    IF values = <<>> THEN <<>>
    ELSE LET before == CumSum(SubSeq(values, 1, Len(values) - 1))
         IN  Append(before, (IF before = <<>> THEN 0 ELSE before[Len(before)])
                            + values[Len(values)])

\* the rows of the selected range: all, or those dated start_date or later
InRange(frame, range, clock) ==
    IF range = "Último mes"
    THEN Where(frame, [i \in 1..NRows(frame) |->
                          DateGeq(frame.rows[i]["date"], MinusOneMonth(clock))])
    ELSE IF range = "Última semana"
    THEN Where(frame, [i \in 1..NRows(frame) |->
                          DateGeq(frame.rows[i]["date"], MinusOneWeek(clock))])
    ELSE frame

\* the trace of a figure: one (x, y) point per row
Trace(frame, ycol) ==
    [i \in 1..NRows(frame) |->
        [x |-> frame.rows[i]["date"], y |-> frame.rows[i][ycol]]]

\* a plot_total_money that accumulates inside the selected range only
PlotTotalMoneyTraceWindowFirst(transactions, range, clock) ==
    LET t1 == MaskedAmount(transactions, "amount_no_ahorros",
                  [i \in 1..NRows(transactions) |->
                      transactions.rows[i]["type"] = "Ahorros"])
        t2 == InRange(t1, range, clock)
        t3 == WithColumn(t2, "accumulated",
                  CumSum(Column(t2, "amount_no_ahorros")))
    IN  Trace(Where(t3, [i \in 1..NRows(t3) |->
                            t3.rows[i]["amount_no_ahorros"] # 0]),
              "accumulated")

PlotTotalMoneyTrace(transactions, range, clock) ==
    LET t1 == MaskedAmount(transactions, "amount_no_ahorros",
                  [i \in 1..NRows(transactions) |->
                      transactions.rows[i]["type"] = "Ahorros"])
        t2 == WithColumn(t1, "accumulated",
                  CumSum(Column(t1, "amount_no_ahorros")))
        t3 == Where(t2, [i \in 1..NRows(t2) |->
                            t2.rows[i]["amount_no_ahorros"] # 0])
    IN  Trace(InRange(t3, range, clock), "accumulated")

\* a plot_ahorros that keeps the rows without savings
PlotAhorrosTraceKeepsZero(transactions, range, clock) ==
    LET t1 == MaskedAmount(transactions, "amount_ahorros",
                  [i \in 1..NRows(transactions) |->
                      transactions.rows[i]["type"] # "Ahorros"])
        t3 == WithColumn(t1, "accumulated_ahorros",
                  CumSum(Column(t1, "amount_ahorros")))
    IN  Trace(InRange(t3, range, clock), "accumulated_ahorros")

PlotAhorrosTrace(transactions, range, clock) ==
    LET t1 == MaskedAmount(transactions, "amount_ahorros",
                  [i \in 1..NRows(transactions) |->
                      transactions.rows[i]["type"] # "Ahorros"])
        t2 == Where(t1, [i \in 1..NRows(t1) |->
                            t1.rows[i]["amount_ahorros"] # 0])
        t3 == WithColumn(t2, "accumulated_ahorros",
                  CumSum(Column(t2, "amount_ahorros")))
    IN  Trace(InRange(t3, range, clock), "accumulated_ahorros")

-----------------------------------------------------------------------------
(* plot_category_pie, plot_pie_expense_comer *)

TransactionTypes == {"Expense", "Income"}

\* frame[frame["type"] == transaction_type]
OfType(frame, transaction_type) ==
    Where(frame, [i \in 1..NRows(frame) |->
                     frame.rows[i]["type"] = transaction_type])

\* abs(frame[frame["type"] == transaction_type]["amount"].sum())
TotalExpenses(frame, transaction_type) ==
    Abs(SumColumn(OfType(frame, transaction_type), "amount"))

\* a general_category that merges nothing
WithGeneralCategoryUnmerged(frame) ==
    [columns |-> frame.columns \cup {"general_category"},
     rows |-> [i \in 1..Len(frame.rows) |->
                  ("general_category" :> frame.rows[i]["category"])
                      @@ frame.rows[i]]]

\* frame["general_category"] = frame["category"], "Comer" for those in COMER
WithGeneralCategory(frame) ==
    WithColumn(frame, "general_category",
        [i \in 1..NRows(frame) |->
            IF frame.rows[i]["category"] \in COMER THEN "Comer"
            ELSE frame.rows[i]["category"]])

\* frame.groupby(key)["amount"].sum(): the sum of every key that occurs
GroupSums(frame, key) ==
    [k \in {frame.rows[i][key] : i \in 1..NRows(frame)} |->
        SumColumn(Where(frame, [i \in 1..NRows(frame) |->
                                   frame.rows[i][key] = k]), "amount")]

\* the label of a slice: category + " (" + f"{amount:.2f}" + " €)"
SliceLabel(category, amount) == <<category, " (", amount, " €)">>

\* slices that keep the sign of the sums of the expense groups
GeneralSlicesSigned(sums, transaction_type) ==
    IF transaction_type = "Income"
    THEN {[label |-> <<k, " (", sums[k], " €)">>, value |-> sums[k]] :
             k \in {g \in DOMAIN sums : sums[g] > 0}}
    ELSE {[label |-> <<k, " (", sums[k], " €)">>, value |-> sums[k]] :
             k \in {g \in DOMAIN sums : sums[g] < 0}}

\* the slices plot_category_pie draws from the sums of the groups
GeneralSlices(sums, transaction_type) ==
    IF transaction_type = "Income"
    THEN {[label |-> SliceLabel(k, sums[k]), value |-> sums[k]] :
             k \in {g \in DOMAIN sums : sums[g] > 0}}
    ELSE {[label |-> SliceLabel(k, Abs(sums[k])), value |-> Abs(sums[k])] :
             k \in {g \in DOMAIN sums : sums[g] < 0}}

\* plot_category_pie on a frame that has its general_category column
CategoryPie(frame, transaction_type) ==
    [total_expenses |-> TotalExpenses(frame, transaction_type),
     slices |-> GeneralSlices(
         GroupSums(OfType(frame, transaction_type), "general_category"),
         transaction_type)]

\* recent = transactions[transactions["category"].isin(COMER)]
Recent(frame) ==
    Where(frame, [i \in 1..NRows(frame) |->
                     frame.rows[i]["category"] \in COMER])

\* slices that keep the groups whose sum is zero
ComerSlicesNotStrict(sums, transaction_type) ==
    LET kept == IF transaction_type = "Income"
                THEN {g \in DOMAIN sums : sums[g] >= 0}
                ELSE {g \in DOMAIN sums : sums[g] <= 0}
    IN  {[label |-> <<k, " (", Abs(sums[k]), " €)">>, value |-> Abs(sums[k])] :
            k \in kept}

\* the slices plot_pie_expense_comer draws from the sums of the groups
ComerSlices(sums, transaction_type) ==
    LET kept == IF transaction_type = "Income"
                THEN {g \in DOMAIN sums : sums[g] > 0}
                ELSE {g \in DOMAIN sums : sums[g] < 0}
    IN  {[label |-> SliceLabel(k, Abs(sums[k])), value |-> Abs(sums[k])] :
            k \in kept}

ComerPie(frame, transaction_type) ==
    [total_expenses |-> TotalExpenses(Recent(frame), transaction_type),
     slices |-> ComerSlices(
         GroupSums(OfType(Recent(frame), transaction_type), "category"),
         transaction_type)]

-----------------------------------------------------------------------------
(* list_transactions *)

\* transactions_list: the dates formatted, the rows most recent first
TransactionsList(frame) ==
    Reverse([i \in 1..NRows(frame) |->
                [frame.rows[i] EXCEPT !["date"] = Strftime(@)]])

TotalPages(total_items) == (total_items - 1) \div items_per_page + 1

\* a start index that skips the first page
StartIdxOffByOne(page) == page * items_per_page

StartIdx(page) == (page - 1) * items_per_page

EndIdx(page) == StartIdx(page) + items_per_page

\* rows.iloc[start_idx:end_idx]
Iloc(rows, start_idx, end_idx) ==
    SubSeq(rows, start_idx + 1, Min(end_idx, Len(rows)))

CurrentPageData(transactions_list, page) ==
    Iloc(transactions_list, StartIdx(page), EndIdx(page))

RECURSIVE SeparatorLoop(_, _)
\* the display loop: for every row, whether "---" is written before it
SeparatorLoop(rows, previous_date) ==
    IF rows = <<>> THEN <<>>
    ELSE LET day == DropLast6(Head(rows)["date"])
         IN  <<day # previous_date>> \o SeparatorLoop(Tail(rows), day)

\* a display loop that starts without a previous date
SeparatorsFromNone(current_page_data) ==
    SeparatorLoop(current_page_data, <<>>)

Separators(current_page_data) ==
    IF current_page_data = <<>> THEN <<>>
    ELSE SeparatorLoop(current_page_data,
                       DropLast6(current_page_data[1]["date"]))

-----------------------------------------------------------------------------
(* The script run: deploy_streamlit, dashboard and list_transactions.      *)

\* what get_transactions returns for a database that has live pages
Ledger(database) == Normalize(RawFrame(QueryAll(database).response_results))

\* the variables of one script run, before the run
FreshRun ==
    /\ df = Unset /\ fetched = Unset /\ queries = <<>> /\ response_results = <<>>
    /\ money = Unset
    /\ time_range = NoChoice /\ fig_total = Unset /\ fig_ahorros = Unset
    /\ expenses_or_income = NoChoice /\ df_filtered = Unset
    /\ fig_pie = Unset /\ fig_comer = Unset /\ listing = Unset

\* df = get_transactions()
GetTransactions ==
    /\ pc = "start"
    /\ LET q == QueryAll(db)
           frame == RawFrame(q.response_results)
       IN  /\ queries' = q.queries
           /\ response_results' = q.response_results
           /\ IF RaisesKeyError(frame)
              THEN /\ pc' = "error"
                   /\ UNCHANGED <<df, fetched>>
              ELSE /\ df' = Normalize(frame)
                   /\ fetched' = df'
                   /\ pc' = "money"
    /\ UNCHANGED <<db, now, money, time_range, fig_total, fig_ahorros,
                   expenses_or_income, df_filtered, fig_pie, fig_comer,
                   listing, deleted>>

\* dashboard: get_current_money(transactions), on the frame itself
GetCurrentMoney ==
    /\ pc = "money"
    /\ df' = MoneyColumns(df)
    /\ money' = CurrentMoney(df')
    /\ pc' = "range"
    /\ UNCHANGED <<db, now, fetched, queries, response_results, time_range, fig_total,
                   fig_ahorros, expenses_or_income, df_filtered, fig_pie,
                   fig_comer, listing, deleted>>

\* dashboard: time_range = st.selectbox(...)
SelectTimeRange ==
    /\ pc = "range"
    /\ time_range' \in TimeRanges
    /\ pc' = "total"
    /\ UNCHANGED <<db, now, df, fetched, queries, response_results, money, fig_total,
                   fig_ahorros, expenses_or_income, df_filtered, fig_pie,
                   fig_comer, listing, deleted>>

\* dashboard: fig_total = plot_total_money(transactions, time_range)
PlotTotalMoney ==
    /\ pc = "total"
    /\ fig_total' = [trace |-> PlotTotalMoneyTrace(df, time_range, now)]
    /\ pc' = "ahorros"
    /\ UNCHANGED <<db, now, df, fetched, queries, response_results, money, time_range,
                   fig_ahorros, expenses_or_income, df_filtered, fig_pie,
                   fig_comer, listing, deleted>>

\* dashboard: fig_ahorros = plot_ahorros(transactions, time_range)
PlotAhorros ==
    /\ pc = "ahorros"
    /\ fig_ahorros' = [trace |-> PlotAhorrosTrace(df, time_range, now)]
    /\ pc' = "type"
    /\ UNCHANGED <<db, now, df, fetched, queries, response_results, money, time_range,
                   fig_total, expenses_or_income, df_filtered, fig_pie,
                   fig_comer, listing, deleted>>

\* dashboard: expenses_or_income = st.selectbox(...)
SelectType ==
    /\ pc = "type"
    /\ expenses_or_income' \in TransactionTypes
    /\ pc' = "filter"
    /\ UNCHANGED <<db, now, df, fetched, queries, response_results, money, time_range,
                   fig_total, fig_ahorros, df_filtered, fig_pie, fig_comer,
                   listing, deleted>>

\* dashboard: df_filtered = transactions.copy(), cut to the selected range
FilterDashboard ==
    /\ pc = "filter"
    /\ df_filtered' = InRange(df, time_range, now)
    /\ pc' = "pie"
    /\ UNCHANGED <<db, now, df, fetched, queries, response_results, money, time_range,
                   fig_total, fig_ahorros, expenses_or_income, fig_pie,
                   fig_comer, listing, deleted>>

\* dashboard: fig_pie = plot_category_pie(df_filtered, expenses_or_income),
\* which adds general_category to the frame it is given
PlotCategoryPie ==
    /\ pc = "pie"
    /\ df_filtered' = WithGeneralCategory(df_filtered)
    /\ fig_pie' = CategoryPie(df_filtered', expenses_or_income)
    /\ pc' = "comer"
    /\ UNCHANGED <<db, now, df, fetched, queries, response_results, money, time_range,
                   fig_total, fig_ahorros, expenses_or_income, fig_comer,
                   listing, deleted>>

\* dashboard: fig_comer = plot_pie_expense_comer(df_filtered, expenses_or_income)
PlotPieExpenseComer ==
    /\ pc = "comer"
    /\ fig_comer' = ComerPie(df_filtered, expenses_or_income)
    /\ pc' = "list"
    /\ UNCHANGED <<db, now, df, fetched, queries, response_results, money, time_range,
                   fig_total, fig_ahorros, expenses_or_income, df_filtered,
                   fig_pie, listing, deleted>>

\* delete_transaction(page_id)
DeleteTransaction(database, page_id) == Archive(database, page_id)

\* what list_transactions renders of a list for the selected page
Rendered(transactions_list, total_pages, page) ==
    [total_items |-> Len(transactions_list),
     total_pages |-> total_pages,
     page |-> page,
     rows |-> CurrentPageData(transactions_list, page),
     separators |-> Separators(CurrentPageData(transactions_list, page))]

\* list_transactions(df): the page the user selected is rendered
ListTransactions ==
    /\ pc = "list"
    /\ LET total_pages == TotalPages(NRows(df))
       IN  IF total_pages < 1
           THEN \* st.number_input rejects value=1 above max_value
                /\ listing' = [total_items |-> NRows(df),
                               total_pages |-> total_pages,
                               page |-> 0, rows |-> <<>>, separators |-> <<>>]
                /\ pc' = "error"
           ELSE /\ \E page \in 1..total_pages :
                       listing' = Rendered(TransactionsList(df), total_pages, page)
                /\ pc' = "idle"
    /\ UNCHANGED <<db, now, df, fetched, queries, response_results, money, time_range, fig_total,
                   fig_ahorros, expenses_or_income, df_filtered, fig_pie,
                   fig_comer, deleted>>

\* list_transactions: the "Eliminar" button of a rendered row is pressed;
\* delete_transaction(row["page_id"]), then st.rerun()
Eliminar ==
    /\ pc = "idle"
    /\ \E k \in 1..Len(listing.rows) :
           /\ db' = DeleteTransaction(db, listing.rows[k]["page_id"])
           /\ deleted' = deleted \cup {listing.rows[k]["page_id"]}
    /\ pc' = "rerun"
    /\ UNCHANGED <<now, df, fetched, queries, response_results, money, time_range, fig_total,
                   fig_ahorros, expenses_or_income, df_filtered, fig_pie,
                   fig_comer, listing>>

\* st.rerun(): after a delete, on "Refresh", or on any other interaction (or
\* reload) once the run has ended; the script starts again from the top
Rerun ==
    /\ pc \in {"rerun", "idle", "error"}
    /\ pc' = "start"
    /\ df' = Unset /\ fetched' = Unset /\ queries' = <<>> /\ response_results' = <<>>
    /\ money' = Unset
    /\ time_range' = NoChoice /\ fig_total' = Unset /\ fig_ahorros' = Unset
    /\ expenses_or_income' = NoChoice /\ df_filtered' = Unset
    /\ fig_pie' = Unset /\ fig_comer' = Unset /\ listing' = Unset
    /\ UNCHANGED <<db, now, deleted>>

Next ==
    \/ GetTransactions
    \/ GetCurrentMoney
    \/ SelectTimeRange
    \/ PlotTotalMoney
    \/ PlotAhorros
    \/ SelectType
    \/ FilterDashboard
    \/ PlotCategoryPie
    \/ PlotPieExpenseComer
    \/ ListTransactions
    \/ Eliminar
    \/ Rerun

-----------------------------------------------------------------------------
(* Databases. *)

\* every sequence of at most n elements of S
SeqsUpTo(S, n) == UNION {[1..k -> S] : k \in 0..n}

\* the database whose i-th page has id i and the i-th property values
DbOf(fields) == [i \in 1..Len(fields) |-> Page(i, fields[i])]

\* the application specification: pages that differ in amount, type and date
AppFields ==
    [Category : {"comida"}, Amount : {-5, 10}, Account : {"Tarjeta"},
     Type : {"Expense", "Ahorros"},
     created_time : {NoDate, <<2025, 1, 20, 9, 30>>}]

Now0 == <<2025, 1, 25, 12, 0>>

Init ==
    /\ db \in {DbOf(fields) : fields \in SeqsUpTo(AppFields, MaxRecords)}
    /\ now = Now0
    /\ pc = "start"
    /\ deleted = {}
    /\ FreshRun

Spec == Init /\ [][Next]_vars

-----------------------------------------------------------------------------
(* get_current_money on the ledgers of databases that differ in amount,    *)
(* account and type.                                                       *)

MoneyFields ==
    [Category : {"ocio"}, Amount : {-5, 10},
     Account : {"Tarjeta", "Efectivo", "Ahorros", NoSelect},
     Type : {"Expense", "Income", "Ahorros", NoSelect},
     created_time : {NoDate}]

InitMoney ==
    /\ db \in {DbOf(fields) : fields \in SeqsUpTo(MoneyFields, MaxLedger)}
    /\ now = Now0
    /\ pc = "start"
    /\ deleted = {}
    /\ FreshRun

NextMoney == GetTransactions \/ GetCurrentMoney

SpecMoney == InitMoney /\ [][NextMoney]_vars

-----------------------------------------------------------------------------
(* plot_category_pie and plot_pie_expense_comer on the ledgers of          *)
(* databases that differ in category, amount and type.                     *)

PieFields ==
    [Category : {"comida", "desayuno", "ocio"}, Amount : {-5, 0, 10},
     Account : {"Tarjeta"}, Type : {"Expense", "Income", "Ahorros"},
     created_time : {NoDate}]

\* the run has reached the pies with the whole ledger as df_filtered
AtPies(database) ==
    /\ db = database
    /\ now = Now0
    /\ pc = "pie"
    /\ deleted = {}
    /\ df = IF database = <<>> THEN EmptyLedger ELSE Ledger(database)
    /\ fetched = df
    /\ df_filtered = df
    /\ queries = QueryAll(database).queries
    /\ response_results = QueryAll(database).response_results
    /\ time_range = "Todo"
    /\ expenses_or_income \in TransactionTypes
    /\ money = Unset /\ fig_total = Unset /\ fig_ahorros = Unset
    /\ fig_pie = Unset /\ fig_comer = Unset /\ listing = Unset

InitPie ==
    \E fields \in SeqsUpTo(PieFields, MaxLedger) : AtPies(DbOf(fields))

NextPie == PlotCategoryPie \/ PlotPieExpenseComer

SpecPie == InitPie /\ [][NextPie]_vars

-----------------------------------------------------------------------------
(* list_transactions on ledgers of up to MaxRows rows, whose dates change  *)
(* every run rows, by a day, a month or a year.                            *)

Gaps == {"day", "month", "year"}

ListDate(i, run, gap) ==
    LET g == (i - 1) \div run
        t == (i - 1) % run
    IN  IF gap = "day" THEN <<2025, 3 + (g \div 28), (g % 28) + 1, 8 + t, 5 * t>>
        ELSE IF gap = "month" THEN <<2025 + (g \div 12), (g % 12) + 1, 15, 8 + t, 5 * t>>
        ELSE <<2025 + g, 6, 15, 8 + t, 5 * t>>

ListDb(n, run, gap) ==
    DbOf([i \in 1..n |->
             [Category |-> "ocio", Amount |-> 10, Account |-> "Tarjeta",
              Type |-> "Income", created_time |-> ListDate(i, run, gap)]])

\* the run has reached list_transactions with this ledger
AtList(database) ==
    /\ db = database
    /\ now = Now0
    /\ pc = "list"
    /\ deleted = {}
    /\ df = IF database = <<>> THEN EmptyLedger ELSE Ledger(database)
    /\ fetched = df
    /\ queries = QueryAll(database).queries
    /\ response_results = QueryAll(database).response_results
    /\ time_range = NoChoice /\ expenses_or_income = NoChoice
    /\ money = Unset /\ fig_total = Unset /\ fig_ahorros = Unset
    /\ df_filtered = Unset /\ fig_pie = Unset /\ fig_comer = Unset
    /\ listing = Unset

InitList ==
    \E n \in 0..MaxRows, run \in 1..MaxRun, gap \in Gaps :
        AtList(ListDb(n, run, gap))

NextList == ListTransactions

SpecList == InitList /\ [][NextList]_vars

-----------------------------------------------------------------------------
(* What the claims speak of. *)

\* the sum of amount over the rows of a ledger that satisfy Keep
SumWhere(ledger, Keep(_)) ==
    SumSeq([i \in 1..Len(ledger.rows) |->
               IF Keep(ledger.rows[i]) THEN ledger.rows[i]["amount"] ELSE 0])

RECURSIVE SumValues(_)
\* the sum of the values of a set of pie slices
SumValues(slices) ==
    IF slices = {} THEN 0
    ELSE LET s == CHOOSE x \in slices : TRUE
         IN  s.value + SumValues(slices \ {s})

Max(a, b) == IF a >= b THEN a ELSE b

CeilDiv(n, d) == (n + d - 1) \div d

-----------------------------------------------------------------------------
(* C1: the card balance get_current_money returns is the sum of amount     *)
(* over account "Tarjeta" minus the sum over account "Ahorros"; the cash   *)
(* balance is the sum over account "Efectivo" and the savings balance the  *)
(* sum over account "Ahorros", whatever the types of the transactions.     *)
C1_BucketBalances ==
    money # Unset =>
        /\ money.current_tarjeta =
               SumWhere(fetched, LAMBDA r : r["account"] = "Tarjeta")
               - SumWhere(fetched, LAMBDA r : r["account"] = "Ahorros")
        /\ money.current_efectivo =
               SumWhere(fetched, LAMBDA r : r["account"] = "Efectivo")
        /\ money.current_ahorros =
               SumWhere(fetched, LAMBDA r : r["account"] = "Ahorros")

\* balances of a ledger with a type-"Ahorros" row on the card and a row of
\* another type on the savings account, so that the card balance is reduced
C1_Witness ==
    /\ money # Unset
    /\ \E i, j \in 1..Len(fetched.rows) :
           /\ fetched.rows[i]["type"] = "Ahorros"
           /\ fetched.rows[i]["account"] = "Tarjeta"
           /\ fetched.rows[j]["account"] = "Ahorros"
           /\ fetched.rows[j]["type"] # "Ahorros"
    /\ money.current_ahorros # 0
    /\ money.current_tarjeta # SumWhere(fetched, LAMBDA r : r["account"] = "Tarjeta")

(* C2: the total get_current_money returns is the sum of amount over the   *)
(* transactions whose type is not "Ahorros"; so total plus the amounts of  *)
(* the type-"Ahorros" transactions is the sum of all amounts.              *)
C2_TotalExcludesSavingsType ==
    money # Unset =>
        /\ money.current_money =
               SumWhere(fetched, LAMBDA r : r["type"] # "Ahorros")
        /\ money.current_money
               + SumWhere(fetched, LAMBDA r : r["type"] = "Ahorros")
           = SumWhere(fetched, LAMBDA r : TRUE)

\* a total from which a type-"Ahorros" amount was left out
C2_Witness ==
    /\ money # Unset
    /\ SumWhere(fetched, LAMBDA r : r["type"] = "Ahorros") # 0
    /\ money.current_money # 0
    /\ \E i \in 1..Len(fetched.rows) :
           /\ fetched.rows[i]["type"] = "Ahorros"
           /\ fetched.rows[i]["account"] # "Ahorros"

-----------------------------------------------------------------------------
\* the pages of the database that are not archived
Live(database) == SelectSeq(database, LAMBDA p : ~p.archived)

(* C3: when the record source returns zero records, the refresh completes  *)
(* without raising: the run does not end in an error, all four balances    *)
(* are zero and every series, summary and page is empty.                   *)
C3_EmptyRefreshCompletes ==
    Live(db) = <<>> =>
        /\ pc # "error"
        /\ pc \in {"rerun", "idle"} =>
               /\ money = [current_money |-> 0, current_tarjeta |-> 0,
                           current_efectivo |-> 0, current_ahorros |-> 0]
               /\ fig_total = [trace |-> <<>>]
               /\ fig_ahorros = [trace |-> <<>>]
               /\ fig_pie # Unset /\ fig_pie.slices = {}
               /\ fig_comer # Unset /\ fig_comer.slices = {}
               /\ listing # Unset /\ listing.rows = <<>>

(* C4: list_transactions computes totalPages = max(1, ceil(n / 20)) for    *)
(* every ledger of n >= 0 rows, 1 for the empty ledger.                    *)
C4_TotalPages ==
    listing # Unset =>
        listing.total_pages =
            Max(1, CeilDiv(listing.total_items, items_per_page))

(* C5: the row slices list_transactions produces for the pages 1, 2, ...,  *)
(* totalPages, concatenated, are the ledger in reverse order: every        *)
(* transaction is on exactly one page, most recent first; and the page     *)
(* rendered is the slice [(page-1)*20, page*20) of the reversed ledger.    *)
C5_PagesCoverLedger ==
    pc \in {"list", "idle", "error"} =>
        LET n == Len(df.rows)
            all == Flatten([p \in 1..TotalPages(n) |->
                               CurrentPageData(TransactionsList(df), p)])
        IN  /\ Len(all) = n
            /\ \A i \in 1..n :
                   all[i]["page_id"] = df.rows[n + 1 - i]["page_id"]
            /\ (listing # Unset /\ listing.page >= 1) =>
                   /\ Len(listing.rows) =
                          Min(items_per_page,
                              n - (listing.page - 1) * items_per_page)
                   /\ \A k \in 1..Len(listing.rows) :
                          listing.rows[k]["page_id"] =
                              df.rows[n + 1 - ((listing.page - 1) * items_per_page + k)]
                                  ["page_id"]

\* the last of three pages of a ledger is rendered
C5_Witness ==
    /\ pc = "idle"
    /\ listing.total_pages = 3
    /\ listing.page = 3
    /\ Len(listing.rows) >= 1

\* the calendar date of the k-th row of the rendered page, from the ledger
DayOfRendered(k) ==
    SubSeq(df.rows[Len(df.rows) + 1 - ((listing.page - 1) * items_per_page + k)]
               ["date"], 1, 3)

(* C6: within a rendered page a day separator precedes a row if and only   *)
(* if the calendar date of the row differs from that of the row before it  *)
(* on the same page; the first row of a page never gets one.               *)
C6_DaySeparators ==
    (listing # Unset /\ listing.page >= 1) =>
        /\ Len(listing.separators) = Len(listing.rows)
        /\ \A k \in 1..Len(listing.rows) :
               listing.separators[k] <=>
                   (k > 1 /\ DayOfRendered(k) # DayOfRendered(k - 1))

\* a second page whose first row is of another day than the last row of the
\* first page, and which has rows with and without a separator
C6_Witness ==
    /\ listing # Unset /\ listing.page = 2
    /\ SubSeq(df.rows[Len(df.rows) - items_per_page]["date"], 1, 3)
           # SubSeq(df.rows[Len(df.rows) - items_per_page + 1]["date"], 1, 3)
    /\ ~listing.separators[1]
    /\ \E k, l \in 2..Len(listing.rows) :
           listing.separators[k] /\ ~listing.separators[l]

-----------------------------------------------------------------------------
\* the rows the pies were given that are of the selected type
IsSelected(r) == r["type"] = expenses_or_income

\* the group of a row in the general summary
GeneralOf(r) == IF r["category"] \in COMER THEN "Comer" ELSE r["category"]

\* the net sum of a group of the general summary, and of a category
NetGeneral(k) ==
    SumWhere(df_filtered, LAMBDA r : IsSelected(r) /\ GeneralOf(r) = k)

NetCategory(c) ==
    SumWhere(df_filtered, LAMBDA r : IsSelected(r) /\ r["category"] = c)

GeneralKeys ==
    {GeneralOf(df_filtered.rows[i]) :
        i \in {j \in 1..Len(df_filtered.rows) : IsSelected(df_filtered.rows[j])}}

ComerKeys ==
    {df_filtered.rows[i]["category"] :
        i \in {j \in 1..Len(df_filtered.rows) :
                  /\ IsSelected(df_filtered.rows[j])
                  /\ df_filtered.rows[j]["category"] \in COMER}}

\* the net sum x has the strict sign of the selected type
HasSign(x) == IF expenses_or_income = "Income" THEN x > 0 ELSE x < 0

\* the net sum x has the sign opposite to the selected type
HasOppositeSign(x) == IF expenses_or_income = "Income" THEN x < 0 ELSE x > 0

GrandTotal == Abs(SumWhere(df_filtered, IsSelected))

GrandTotalComer ==
    Abs(SumWhere(df_filtered,
                 LAMBDA r : IsSelected(r) /\ r["category"] \in COMER))

(* C7 as claimed: for every ledger and direction the group amounts of the  *)
(* category pie, and of the Comer pie within the Comer set, add up to the  *)
(* absolute value of the sum of amount over the rows of that direction.    *)
C7_GroupsSumToGrandTotal ==
    /\ fig_pie # Unset => SumValues(fig_pie.slices) = GrandTotal
    /\ fig_comer # Unset => SumValues(fig_comer.slices) = GrandTotalComer

(* C7 as amended: the group amounts add up to the grand total whenever no  *)
(* group of the direction-filtered rows has a net sum of the sign opposite *)
(* to the direction (such a group is left out of the pie, not of the       *)
(* grand total).                                                           *)
C7_GroupsSumToGrandTotalSameSign ==
    /\ (fig_pie # Unset /\ \A k \in GeneralKeys : ~HasOppositeSign(NetGeneral(k)))
           => SumValues(fig_pie.slices) = GrandTotal
    /\ (fig_comer # Unset /\ \A c \in ComerKeys : ~HasOppositeSign(NetCategory(c)))
           => SumValues(fig_comer.slices) = GrandTotalComer

\* both pies of a ledger with two expense groups of negative net sum
C7_Witness ==
    /\ fig_comer # Unset
    /\ expenses_or_income = "Expense"
    /\ Cardinality(fig_pie.slices) = 2
    /\ \A k \in GeneralKeys : ~HasOppositeSign(NetGeneral(k))
    /\ "Comer" \in GeneralKeys
    /\ GrandTotal > GrandTotalComer
    /\ GrandTotalComer > 0

(* C8: no slice of the general pie is labelled with a category of COMER:   *)
(* the rows of those categories are counted under the one group "Comer",   *)
(* every other slice counting the rows of its own category.  The Comer pie *)
(* counts only rows whose category is in COMER, grouped by that category.  *)
C8_ComerMerged ==
    /\ fig_pie # Unset =>
           /\ \A s \in fig_pie.slices :
                  /\ s.label[1] \notin COMER
                  /\ s.label[1] \in GeneralKeys
                  /\ s.value = Abs(NetGeneral(s.label[1]))
           /\ ("Comer" \in GeneralKeys /\ HasSign(NetGeneral("Comer"))) =>
                  \E s \in fig_pie.slices :
                      /\ s.label[1] = "Comer"
                      /\ s.value = GrandTotalComer
    /\ fig_comer # Unset =>
           /\ \A s \in fig_comer.slices :
                  /\ s.label[1] \in COMER
                  /\ s.value = Abs(NetCategory(s.label[1]))
           /\ \A c \in ComerKeys :
                  HasSign(NetCategory(c)) =>
                      \E s \in fig_comer.slices : s.label[1] = c

\* two categories of COMER merged into one slice of the general pie, and
\* drawn as two slices of the Comer pie
C8_Witness ==
    /\ fig_comer # Unset
    /\ Cardinality(fig_comer.slices) = 2
    /\ Cardinality(fig_pie.slices) = 1
    /\ \E s \in fig_pie.slices :
           s.label[1] = "Comer" /\ s.value = SumValues(fig_comer.slices)

-----------------------------------------------------------------------------
\* the ids of the rows of a frame, and of the live pages of the database
RowIds(frame) == {frame.rows[i]["page_id"] : i \in 1..Len(frame.rows)}

LiveIds == {Live(db)[i].id : i \in 1..Len(Live(db))}

(* C9: after delete_transaction(X) and the re-run that follows it, the     *)
(* ledger is rebuilt without X and with every other live transaction, and  *)
(* what is derived and listed afterwards is derived from that ledger.      *)
C9_DeletedIsGone ==
    (deleted # {} /\ pc \notin {"rerun", "start"}) =>
        /\ pc # "error"
        /\ df # Unset
        /\ RowIds(df) = LiveIds
        /\ RowIds(df) \cap deleted = {}
        /\ Len(df.rows) = Cardinality(LiveIds)
        /\ listing # Unset => RowIds(listing) \cap deleted = {}

(* C10: no derivation mutates the ledger it is given: the ledger has the   *)
(* rows, columns and values get_transactions returned, whatever was        *)
(* derived from it since.                                                  *)
C10_LedgerNotMutated ==
    df # Unset => df = fetched

-----------------------------------------------------------------------------
\* the page of the database a row of the ledger was built from
PageOfRow(r) == CHOOSE p \in {db[i] : i \in 1..Len(db)} : p.id = r["page_id"]

(* C11: in the ledger get_transactions returns, the amount of every row of *)
(* type "Expense" is the negation of the amount of its record (also when   *)
(* that amount is negative), and the amount of every other row is the      *)
(* amount of its record.                                                   *)
C11_ExpenseNegatedOnce ==
    fetched # Unset =>
        \A i \in 1..Len(fetched.rows) :
            LET r == fetched.rows[i]
            IN  r["amount"] = IF r["type"] = "Expense"
                              THEN -PageOfRow(r).Amount
                              ELSE PageOfRow(r).Amount

\* a ledger with an expense entered as a negative amount, now positive, and
\* a row of another type that kept its amount
C11_Witness ==
    /\ fetched # Unset
    /\ \E i, j \in 1..Len(fetched.rows) :
           /\ fetched.rows[i]["type"] = "Expense"
           /\ PageOfRow(fetched.rows[i]).Amount < 0
           /\ fetched.rows[i]["amount"] > 0
           /\ fetched.rows[j]["type"] # "Expense"
           /\ fetched.rows[j]["amount"] = PageOfRow(fetched.rows[j]).Amount

-----------------------------------------------------------------------------
(* plot_total_money and plot_ahorros on the ledgers of databases that      *)
(* differ in amount, type and date: before the last month, inside it, and  *)
(* inside the last week.                                                   *)

SeriesFields ==
    [Category : {"ocio"}, Amount : {-5, 0, 10}, Account : {"Tarjeta"},
     Type : {"Expense", "Income", "Ahorros"},
     created_time : {<<2024, 11, 3, 10, 0>>, <<2025, 1, 5, 9, 30>>,
                     <<2025, 1, 22, 18, 0>>}]

\* the run has reached the time_range selectbox with this ledger
AtSeries(database) ==
    /\ db = database
    /\ now = Now0
    /\ pc = "range"
    /\ deleted = {}
    /\ df = IF database = <<>> THEN EmptyLedger ELSE Ledger(database)
    /\ fetched = df
    /\ queries = QueryAll(database).queries
    /\ response_results = QueryAll(database).response_results
    /\ time_range = NoChoice /\ expenses_or_income = NoChoice
    /\ money = Unset /\ fig_total = Unset /\ fig_ahorros = Unset
    /\ df_filtered = Unset /\ fig_pie = Unset /\ fig_comer = Unset
    /\ listing = Unset

InitSeries ==
    \E fields \in SeqsUpTo(SeriesFields, MaxLedger) : AtSeries(DbOf(fields))

NextSeries == SelectTimeRange \/ PlotTotalMoney \/ PlotAhorros

SpecSeries == InitSeries /\ [][NextSeries]_vars

\* the amount of a row as the total track and the savings track count it
TotalMasked(r) == IF r["type"] = "Ahorros" THEN 0 ELSE r["amount"]

SavingsMasked(r) == IF r["type"] = "Ahorros" THEN r["amount"] ELSE 0

\* for every row of the ledger, its date and the sum of the masked amounts
\* of the rows up to and including it
RunningPoints(Masked(_)) ==
    [i \in 1..Len(df.rows) |->
        [x |-> df.rows[i]["date"],
         y |-> SumSeq([j \in 1..i |-> Masked(df.rows[j])])]]

RECURSIVE IsSubsequence(_, _)
\* a is b with some elements left out
IsSubsequence(a, b) ==
    IF a = <<>> THEN TRUE
    ELSE IF b = <<>> THEN FALSE
    ELSE IF Head(a) = Head(b) THEN IsSubsequence(Tail(a), Tail(b))
    ELSE IsSubsequence(a, Tail(b))

\* the date lies in the selected range
InWindow(date) ==
    IF time_range = "Último mes" THEN ~LexLess(date, MinusOneMonth(now))
    ELSE IF time_range = "Última semana" THEN ~LexLess(date, MinusOneWeek(now))
    ELSE TRUE

(* C12: in each series and each range, the cumulative value of every point *)
(* drawn is the sum of the track's masked amounts over the rows of the     *)
(* whole time-ordered ledger up to and including the point's row, rows     *)
(* before the start of the range included.                                 *)
C12_CumulativeBeforeWindow ==
    /\ fig_total # Unset =>
           /\ IsSubsequence(fig_total.trace, RunningPoints(TotalMasked))
           /\ \A k \in 1..Len(fig_total.trace) : InWindow(fig_total.trace[k].x)
    /\ fig_ahorros # Unset =>
           /\ IsSubsequence(fig_ahorros.trace, RunningPoints(SavingsMasked))
           /\ \A k \in 1..Len(fig_ahorros.trace) : InWindow(fig_ahorros.trace[k].x)

\* last week's series of a ledger whose first row is older than the week:
\* the one point drawn carries the amount of the older row
C12_Witness ==
    /\ fig_ahorros # Unset
    /\ time_range = "Última semana"
    /\ Len(df.rows) = 2
    /\ ~InWindow(df.rows[1]["date"])
    /\ TotalMasked(df.rows[1]) # 0
    /\ Len(fig_total.trace) = 1
    /\ fig_total.trace[1].x = df.rows[2]["date"]
    /\ fig_total.trace[1].y = df.rows[1]["amount"] + df.rows[2]["amount"]
    /\ fig_total.trace[1].y # df.rows[2]["amount"]

\* the dates of the rows of the ledger in the selected range that satisfy Keep
DatesWhere(Keep(_)) ==
    LET kept == SelectSeq(df.rows, LAMBDA r : InWindow(r["date"]) /\ Keep(r))
    IN  [k \in 1..Len(kept) |-> kept[k]["date"]]

TraceDates(fig) == [k \in 1..Len(fig.trace) |-> fig.trace[k].x]

(* C13 as claimed: plot_ahorros draws no point for a row whose savings     *)
(* amount is 0, whereas plot_total_money draws one point for every row in  *)
(* the range, rows of type "Ahorros" and rows of amount 0 included.        *)
C13_ZeroRowsDroppedFromSavingsOnly ==
    /\ fig_ahorros # Unset =>
           TraceDates(fig_ahorros) = DatesWhere(LAMBDA r : SavingsMasked(r) # 0)
    /\ fig_total # Unset =>
           TraceDates(fig_total) = DatesWhere(LAMBDA r : TRUE)

(* C13 as amended: both series leave out the rows whose masked amount is   *)
(* 0: plot_ahorros draws one point for every row in the range whose        *)
(* savings amount is not 0, plot_total_money one for every row in the      *)
(* range that is not of type "Ahorros" and whose amount is not 0.          *)
C13_ZeroRowsDroppedFromBoth ==
    /\ fig_ahorros # Unset =>
           TraceDates(fig_ahorros) = DatesWhere(LAMBDA r : SavingsMasked(r) # 0)
    /\ fig_total # Unset =>
           TraceDates(fig_total) = DatesWhere(LAMBDA r : TotalMasked(r) # 0)

\* series of a ledger with a savings row and a row of amount 0 in the range:
\* the total series draws neither, the savings series draws the first
C13_Witness ==
    /\ fig_ahorros # Unset
    /\ Len(df.rows) = 2
    /\ \A i \in 1..2 : InWindow(df.rows[i]["date"])
    /\ \E i, j \in 1..2 :
           /\ df.rows[i]["type"] = "Ahorros" /\ df.rows[i]["amount"] # 0
           /\ df.rows[j]["type"] # "Ahorros" /\ df.rows[j]["amount"] = 0
    /\ fig_total.trace = <<>>
    /\ Len(fig_ahorros.trace) = 1

-----------------------------------------------------------------------------
\* the groups a pie shows
ShownGroups(fig) == {s.label[1] : s \in fig.slices}

(* C14: in both pies a group is shown if and only if its net sum over the  *)
(* rows of the selected direction has the strict sign of the direction     *)
(* (> 0 for "Income", < 0 for "Expense"): a group of net sum zero is left  *)
(* out; the amount shown for a group is the absolute value of its net sum. *)
C14_StrictSignFilter ==
    /\ fig_pie # Unset =>
           /\ ShownGroups(fig_pie) = {k \in GeneralKeys : HasSign(NetGeneral(k))}
           /\ Cardinality(fig_pie.slices) = Cardinality(ShownGroups(fig_pie))
           /\ \A s \in fig_pie.slices :
                  /\ s.value = Abs(NetGeneral(s.label[1]))
                  /\ s.value > 0
                  /\ s.label[3] = s.value
    /\ fig_comer # Unset =>
           /\ ShownGroups(fig_comer) = {c \in ComerKeys : HasSign(NetCategory(c))}
           /\ Cardinality(fig_comer.slices) = Cardinality(ShownGroups(fig_comer))
           /\ \A s \in fig_comer.slices :
                  /\ s.value = Abs(NetCategory(s.label[1]))
                  /\ s.value > 0
                  /\ s.label[3] = s.value

\* pies of a ledger with one group of net sum zero, left out of both, and
\* one group of the sign of the direction, shown in both
C14_Witness ==
    /\ fig_comer # Unset
    /\ \E c \in ComerKeys : NetCategory(c) = 0 /\ c \notin ShownGroups(fig_comer)
    /\ \E c \in ComerKeys : HasSign(NetCategory(c)) /\ c \in ShownGroups(fig_comer)
    /\ Cardinality(ComerKeys) = 2
    /\ Cardinality(fig_comer.slices) = 1
    /\ Cardinality(fig_pie.slices) = 1

-----------------------------------------------------------------------------
(* get_transactions on databases of up to MaxPages pages, none archived or *)
(* every seventh archived.                                                 *)

MaxPages == 201

ArchivedEvery == 7

FetchDb(n, every) ==
    [i \in 1..n |->
        [Page(i, [Category |-> "ocio", Amount |-> 10, Account |-> "Tarjeta",
                  Type |-> "Income", created_time |-> NoDate])
            EXCEPT !.archived = (every > 0 /\ i % every = 0)]]

InitFetch ==
    /\ db \in {FetchDb(n, every) : n \in 0..MaxPages,
                                  every \in {0, ArchivedEvery}}
    /\ now = Now0
    /\ pc = "start"
    /\ deleted = {}
    /\ FreshRun

NextFetch == GetTransactions

SpecFetch == InitFetch /\ [][NextFetch]_vars

(* C15: get_transactions queries until a response has has_more = false and *)
(* not after it; every follow-up query starts at the next_cursor of the    *)
(* response before it; the records the rows are built from are the results *)
(* of all responses in the order received, every record once.              *)
C15_QueriesUntilNoMore ==
    queries # <<>> =>
        /\ queries[1].start_cursor = NoCursor
        /\ \A k \in 2..Len(queries) :
               /\ queries[k - 1].has_more
               /\ queries[k].start_cursor = queries[k - 1].next_cursor
        /\ ~queries[Len(queries)].has_more
        /\ response_results =
               Flatten([k \in 1..Len(queries) |-> queries[k].results])
        /\ response_results = Live(db)
        /\ fetched # Unset =>
               /\ Len(fetched.rows) = Len(response_results)
               /\ RowIds(fetched) =
                      {response_results[i].id : i \in 1..Len(response_results)}

\* three queries, the last for the one page that is left
C15_Witness ==
    /\ fetched # Unset
    /\ Len(queries) = 3
    /\ Len(queries[1].results) = PageSize
    /\ queries[3].start_cursor = queries[2].next_cursor
    /\ queries[3].start_cursor # NoCursor
    /\ Len(response_results) > 2 * PageSize

====
